---- MODULE Spec2Model ----
(***************************************************************************)
(* Model of src/server.js (the snapshot with the payments.status column,   *)
(* lines 255-659): the students and payments tables of the single SQLite   *)
(* connection `db`, and the HTTP handlers that read and write them.        *)
(*                                                                         *)
(* Every handler is an async function: each db.run / db.get / db.all is    *)
(* one SQL statement that SQLite executes atomically on the connection,    *)
(* and the handler continues in that statement's callback.  One step of    *)
(* the model is therefore one SQL statement of one request together with   *)
(* the JavaScript that runs in its callback (which may answer the request  *)
(* and issues the next statement).  Statements of different requests       *)
(* interleave freely; the statements of one request keep program order.    *)
(*                                                                         *)
(* The connection has ONE transaction state shared by all requests:        *)
(* BEGIN fails when a transaction is open, COMMIT and ROLLBACK fail when   *)
(* none is, and every statement executed while a transaction is open       *)
(* belongs to it, whichever request issued it.  The handlers pass no       *)
(* callback to db.run('BEGIN'/'COMMIT'/'ROLLBACK'), so those errors only   *)
(* reach the db 'error' listener (server.js:629) and change nothing.       *)
(***************************************************************************)
EXTENDS Integers, Sequences, FiniteSets, Bags, TLC

\* ---------------------------------------------------------------- bounds
MaxReq == 2          \* requests handled in one behaviour
MaxToday == 31       \* last day date('now') reaches (days are integers)

\* ------------------------------------------------------- program constants
GracePeriod == 30    \* '+30 days' in both status CASE expressions
FirstDay == 30       \* date('now') when the behaviour starts
NULL == -1           \* SQL NULL: a body field that is absent binds as NULL
BadDate == -2        \* a payment_date text that date() cannot parse
Day0 == 0            \* a parsable payment_date, as a day number
AliceName == 1       \* a non-NULL students.name
Amt60 == 60
Amt100 == 100
Amt150 == 150

StudentIds == 1..2

VARIABLES
    students,   \* rows of table students, as the connection sees them
    payments,   \* rows of table payments, as the connection sees them
    seq,        \* sqlite_sequence: [students |-> n, payments |-> n] (AUTOINCREMENT)
    inTx,       \* TRUE while a transaction is open on the connection
    saved,      \* the database as of the open transaction's BEGIN (ROLLBACK restores it)
    today,      \* date('now')
    req,        \* the requests in flight, a bag of records: handler position,
                \* parameters, locals
    arrived,    \* number of requests that have arrived
    out,        \* the response sent by the step just taken (NoOut if it sent none)
    deleted     \* ids for which a DELETE /api/students/:id has answered 200

db == <<students, payments, seq, inTx, saved>>
tables == <<students, payments>>
vars == <<students, payments, seq, inTx, saved, today, req, arrived, out, deleted>>

\* ------------------------------------------------------------ SQL helpers
StudentExists(sid) == \E s \in students : s.id = sid
StudentRow(sid) == CHOOSE s \in students : s.id = sid
PaymentsOf(sid) == {p \in payments : p.student_id = sid}

RECURSIVE SortById(_)
\* rows of a SELECT without ORDER BY: rowid order
SortById(rows) ==
    IF rows = {} THEN <<>>
    ELSE LET first == CHOOSE p \in rows : \A q \in rows : p.id <= q.id
         IN <<first>> \o SortById(rows \ {first})

\* date('now') > date(payment_date, '+30 days'); date() of unparsable text is
\* NULL and a comparison with NULL is not true
Overdue(pdate, now) == pdate # BadDate /\ pdate # NULL /\ now > pdate + GracePeriod

\* CurrentStatus with the grace period's last day counted as overdue (>=)
CurrentStatusInclusive(status, pdate, now) ==
    IF status = "paid" THEN "paid"
    ELSE IF pdate # BadDate /\ pdate # NULL /\ now >= pdate + GracePeriod THEN "overdue"
    ELSE "pending"

\* CASE of GET /api/payments
CurrentStatus(status, pdate, now) ==
    IF status = "paid" THEN "paid"
    ELSE IF Overdue(pdate, now) THEN "overdue"
    ELSE "pending"

\* UpdateStatus whose first WHEN is ? > ?
UpdateStatusStrict(amount, samount, pdate, now) ==
    IF amount # NULL /\ samount # NULL /\ amount > samount THEN "paid"
    ELSE IF Overdue(pdate, now) THEN "overdue"
    ELSE "pending"

\* CASE of the UPDATE in PUT /api/payments/status/:studentId (? >= ? with a
\* NULL operand is not true)
UpdateStatus(amount, samount, pdate, now) ==
    IF amount # NULL /\ samount # NULL /\ amount >= samount THEN "paid"
    ELSE IF Overdue(pdate, now) THEN "overdue"
    ELSE "pending"

\* SyntheticStatus with the rule of the UPDATE branch (>=)
SyntheticStatusAtLeast(amount, samount) ==
    IF amount >= samount THEN "paid" ELSE "pending"

\* amount === student.amount ? 'paid' : 'pending'
SyntheticStatus(amount, samount) == IF amount = samount THEN "paid" ELSE "pending"

\* INSERT INTO students succeeds: name TEXT NOT NULL
InsertStudentOk(name) == name # NULL

\* InsertPaymentOk for a payments table whose payment_date lacks NOT NULL
InsertPaymentOkDateNullable(sid, amount, pdate) ==
    /\ amount # NULL
    /\ (sid = NULL \/ StudentExists(sid))

\* INSERT INTO payments succeeds: amount and payment_date NOT NULL, and the
\* FOREIGN KEY (student_id), which SQLite does not check for a NULL student_id
InsertPaymentOk(sid, amount, pdate) ==
    /\ amount # NULL
    /\ pdate # NULL
    /\ (sid = NULL \/ StudentExists(sid))

NewPayment(sid, amount, pdate, method, status) ==
    [id |-> seq.payments + 1, student_id |-> sid, amount |-> amount,
     payment_date |-> pdate, payment_method |-> method, status |-> status]

NoSave == [students |-> {}, payments |-> {}, seq |-> [students |-> 0, payments |-> 0]]

\* BEGIN TRANSACTION: an error, and no effect, inside a transaction
Begin ==
    IF inTx THEN UNCHANGED <<inTx, saved>>
    ELSE /\ inTx' = TRUE
         /\ saved' = [students |-> students, payments |-> payments, seq |-> seq]

\* COMMIT: an error, and no effect, outside a transaction
Commit ==
    /\ inTx' = FALSE
    /\ saved' = NoSave
    /\ UNCHANGED <<students, payments, seq>>

\* ROLLBACK: restores the database as of BEGIN; an error outside a transaction
Rollback ==
    /\ inTx' = FALSE
    /\ saved' = NoSave
    /\ IF inTx
       THEN /\ students' = saved.students
            /\ payments' = saved.payments
            /\ seq' = saved.seq
       ELSE UNCHANGED <<students, payments, seq>>

\* ------------------------------------------------------------- requests
\* a request in flight: its handler, the next statement, parameters, locals
NewReq ==
    [op |-> "none", pc |-> "none", sid |-> NULL, amount |-> NULL,
     body |-> [student_id |-> NULL, name |-> NULL, amount |-> NULL,
               payment_date |-> NULL],
     pays |-> <<>>, idx |-> 1, samount |-> NULL, count |-> NULL,
     clean |-> FALSE, pre |-> <<{}, {}>>]

\* the fields of a POST body (req.body); an absent field is NULL
Body(sid, name, amount, pdate) ==
    [student_id |-> sid, name |-> name, amount |-> amount, payment_date |-> pdate]

\* a response: the handler that sent it, its status code, the body of the
\* request it answers, and the rows or counts of its body
NoOut == [op |-> "none", code |-> 0, sid |-> NULL, body |-> Body(NULL, NULL, NULL, NULL),
          rows |-> {}, count |-> NULL, removed |-> NULL]

InFlight == BagToSet(req)
One(rec) == SetToBag({rec})

\* another request wrote a row: a reconciliation in flight is no longer the
\* only one to have touched the tables since it arrived
Dirty(rec) ==
    IF rec.clean THEN [rec EXCEPT !.clean = FALSE, !.pre = <<{}, {}>>] ELSE rec

RECURSIVE DirtyAll(_)
DirtyAll(B) ==
    IF BagToSet(B) = {} THEN EmptyBag
    ELSE LET rec == CHOOSE x \in BagToSet(B) : TRUE
         IN One(Dirty(rec)) (+) DirtyAll(B (-) One(rec))

\* req after the request `rec` took a step to `new`, the others untouched
Stepped(rec, new) == (req (-) One(rec)) (+) One(new)
\* req after the request `rec` wrote a row and took a step to `new`
Wrote(rec, new) == DirtyAll(req (-) One(rec)) (+) One(new)
\* req after the request `rec` finished
Ended(rec) == req (-) One(rec)

\* ------------------------------------------- POST /api/students (379-392)
\* dbRun(INSERT INTO students ...): a NOT NULL failure is caught, answered 500
CreateStudentInsert(name, amount) ==
    /\ IF InsertStudentOk(name)
       THEN /\ students' = students \cup
                   {[id |-> seq.students + 1, name |-> name, amount |-> amount]}
            /\ seq' = [seq EXCEPT !.students = seq.students + 1]
            /\ req' = DirtyAll(req) (+) One([NewReq EXCEPT !.op = "createStudent",
                           !.pc = "cs_get", !.sid = seq.students + 1,
                           !.body = Body(NULL, name, amount, NULL)])
            /\ out' = NoOut
       ELSE /\ UNCHANGED <<students, seq, req>>
            /\ out' = [NoOut EXCEPT !.op = "createStudent", !.code = 500,
                             !.body = Body(NULL, name, amount, NULL)]
    /\ arrived' = arrived + 1
    /\ UNCHANGED <<payments, inTx, saved, today, deleted>>

\* dbGet(SELECT * FROM students WHERE id = result.id); res.status(201)
CreateStudentGet(rec) ==
    /\ rec.pc = "cs_get"
    /\ req' = Ended(rec)
    /\ out' = [NoOut EXCEPT !.op = "createStudent", !.code = 201, !.sid = rec.sid,
                     !.body = rec.body]
    /\ UNCHANGED <<db, today, arrived, deleted>>

\* ------------------------------------------- POST /api/payments (417-430)
\* dbRun(INSERT INTO payments ...): status takes its DEFAULT 'pending'
CreatePaymentInsert(sid, amount, pdate) ==
    /\ IF InsertPaymentOk(sid, amount, pdate)
       THEN /\ payments' = payments \cup
                   {NewPayment(sid, amount, pdate, "Cash", "pending")}
            /\ seq' = [seq EXCEPT !.payments = seq.payments + 1]
            /\ req' = DirtyAll(req) (+) One([NewReq EXCEPT !.op = "createPayment",
                           !.pc = "cp_get", !.sid = seq.payments + 1,
                           !.body = Body(sid, NULL, amount, pdate)])
            /\ out' = NoOut
       ELSE /\ UNCHANGED <<payments, seq, req>>
            /\ out' = [NoOut EXCEPT !.op = "createPayment", !.code = 500,
                             !.body = Body(sid, NULL, amount, pdate)]
    /\ arrived' = arrived + 1
    /\ UNCHANGED <<students, inTx, saved, today, deleted>>

\* dbGet(SELECT * FROM payments WHERE id = result.id); res.status(201)
CreatePaymentGet(rec) ==
    /\ rec.pc = "cp_get"
    /\ req' = Ended(rec)
    /\ out' = [NoOut EXCEPT !.op = "createPayment", !.code = 201, !.sid = rec.sid,
                     !.body = rec.body]
    /\ UNCHANGED <<db, today, arrived, deleted>>

\* ------------------------------------------- GET /api/payments (395-415)
\* the rows GET /api/payments answers: p.*, s.name (LEFT JOIN), current_status
PaymentsListing ==
    {[id |-> p.id, student_id |-> p.student_id, status |-> p.status,
      payment_date |-> p.payment_date,
      student_name |-> IF StudentExists(p.student_id)
                       THEN StudentRow(p.student_id).name ELSE NULL,
      current_status |-> CurrentStatus(p.status, p.payment_date, today)]
     : p \in payments}

\* ListPayments that stores the derived status back into payments.status
ListPaymentsPersisting ==
    /\ out' = [NoOut EXCEPT !.op = "listPayments", !.code = 200,
                     !.rows = PaymentsListing]
    /\ payments' = {[p EXCEPT !.status = CurrentStatus(p.status, p.payment_date, today)]
                    : p \in payments}
    /\ UNCHANGED <<students, seq, inTx, saved, today, req, arrived, deleted>>

\* dbAll(SELECT p.*, s.name, CASE ... END as current_status ...); res.json
ListPayments ==
    /\ out' = [NoOut EXCEPT !.op = "listPayments", !.code = 200,
                     !.rows = PaymentsListing]
    /\ UNCHANGED <<db, today, req, arrived, deleted>>

\* --------------------------- PUT /api/payments/status/:studentId (463-542)
\* db.run('BEGIN TRANSACTION;')
ReconcileBegin(sid, amount) ==
    /\ Begin
    /\ req' = req (+) One([NewReq EXCEPT !.op = "reconcile", !.pc = "rc_all",
                   !.sid = sid, !.amount = amount, !.clean = TRUE,
                   !.pre = <<students, payments>>])
    /\ arrived' = arrived + 1
    /\ out' = NoOut
    /\ UNCHANGED <<students, payments, seq, today, deleted>>

\* db.all(SELECT * FROM payments WHERE student_id = ?); the callback issues
\* dbGet (totalPaid is computed and never used)
ReconcileAll(rec) ==
    /\ rec.pc = "rc_all"
    /\ req' = Stepped(rec, [rec EXCEPT !.pays = SortById(PaymentsOf(rec.sid)),
                                       !.pc = "rc_get"])
    /\ out' = NoOut
    /\ UNCHANGED <<db, today, arrived, deleted>>

RECURSIVE TotalPaid(_)
\* payments.reduce((sum, payment) => sum + payment.amount, 0): computed by
\* the callback of db.all and used by no statement after it
TotalPaid(pays) ==
    IF pays = <<>> THEN 0 ELSE Head(pays).amount + TotalPaid(Tail(pays))

\* the 500 of the catch at 538-541
ReconcileError(rec) == [NoOut EXCEPT !.op = "reconcile", !.code = 500, !.sid = rec.sid]

\* dbGet(SELECT amount FROM students WHERE id = ?); no row: throw, the catch
\* issues ROLLBACK and rejects, and the handler answers 500
ReconcileGet(rec) ==
    /\ rec.pc = "rc_get"
    /\ IF StudentExists(rec.sid)
       THEN /\ req' = Stepped(rec, [rec EXCEPT
                           !.samount = StudentRow(rec.sid).amount,
                           !.pc = IF Len(rec.pays) = 0 THEN "rc_insert"
                                  ELSE "rc_update"])
            /\ out' = NoOut
       ELSE /\ req' = Stepped(rec, [rec EXCEPT !.pc = "rollback"])
            /\ out' = ReconcileError(rec)
    /\ UNCHANGED <<db, today, arrived, deleted>>

\* the synthetic payment of the INSERT at 495-499
SyntheticPayment(sid, amount, samount, now) ==
    NewPayment(sid, amount, now, "System", SyntheticStatus(amount, samount))

\* payments.length === 0: dbRun(INSERT ... date('now'), 'System', ...); then
\* db.run('COMMIT;') and resolve; a failed INSERT goes to the catch
ReconcileInsert(rec) ==
    /\ rec.pc = "rc_insert"
    /\ IF InsertPaymentOk(rec.sid, rec.amount, today)
       THEN /\ payments' = payments \cup
                   {SyntheticPayment(rec.sid, rec.amount, rec.samount, today)}
            /\ seq' = [seq EXCEPT !.payments = seq.payments + 1]
            /\ req' = Wrote(rec, [rec EXCEPT !.pc = "commit"])
            /\ out' = NoOut
       ELSE /\ UNCHANGED <<payments, seq>>
            /\ req' = Stepped(rec, [rec EXCEPT !.pc = "rollback"])
            /\ out' = ReconcileError(rec)
    /\ UNCHANGED <<students, inTx, saved, today, arrived, deleted>>

\* the payments table after UPDATE payments SET status = CASE ... WHERE id = ?
StatusWritten(id, amount, samount, now) ==
    {IF p.id = id
     THEN [p EXCEPT !.status = UpdateStatus(amount, samount, p.payment_date, now)]
     ELSE p : p \in payments}

\* one turn of `for (const payment of payments) await dbRun(UPDATE ...)`;
\* after the last one db.run('COMMIT;') and resolve
ReconcileUpdate(rec) ==
    /\ rec.pc = "rc_update"
    /\ payments' = StatusWritten(rec.pays[rec.idx].id, rec.amount, rec.samount, today)
    /\ req' = Wrote(rec, [rec EXCEPT !.idx = rec.idx + 1,
                              !.pc = IF rec.idx = Len(rec.pays) THEN "commit"
                                     ELSE "rc_update"])
    /\ out' = NoOut
    /\ UNCHANGED <<students, seq, inTx, saved, today, arrived, deleted>>

\* dbAll(SELECT * FROM payments WHERE student_id = ?); res.json 200 (527-537)
ReconcileList(rec) ==
    /\ rec.pc = "rc_list"
    /\ req' = Ended(rec)
    /\ out' = [NoOut EXCEPT !.op = "reconcile", !.code = 200, !.sid = rec.sid]
    /\ UNCHANGED <<db, today, arrived, deleted>>

\* ---------------------------------- DELETE /api/students/:id (545-617)
\* dbGet(SELECT * FROM students WHERE id = ?); no row: 404
DeleteGet(sid) ==
    /\ IF StudentExists(sid)
       THEN /\ req' = req (+) One([NewReq EXCEPT !.op = "deleteStudent",
                           !.pc = "del_all", !.sid = sid])
            /\ out' = NoOut
       ELSE /\ UNCHANGED req
            /\ out' = [NoOut EXCEPT !.op = "deleteStudent", !.code = 404, !.sid = sid]
    /\ arrived' = arrived + 1
    /\ UNCHANGED <<db, today, deleted>>

\* dbAll(SELECT * FROM payments WHERE student_id = ?): payments.length
DeleteAll(rec) ==
    /\ rec.pc = "del_all"
    /\ req' = Stepped(rec, [rec EXCEPT !.count = Cardinality(PaymentsOf(rec.sid)),
                                       !.pc = "del_begin"])
    /\ out' = NoOut
    /\ UNCHANGED <<db, today, arrived, deleted>>

\* db.run('BEGIN TRANSACTION;')
DeleteBegin(rec) ==
    /\ rec.pc = "del_begin"
    /\ Begin
    /\ req' = Stepped(rec, [rec EXCEPT !.pc = "del_delete"])
    /\ out' = NoOut
    /\ UNCHANGED <<students, payments, seq, today, arrived, deleted>>

\* the payments table after DELETE FROM students WHERE id = ?: ON DELETE
\* CASCADE with PRAGMA foreign_keys = ON
CascadeDeleted(sid) == {p \in payments : p.student_id # sid}

\* deletedPayments: payments.length, the rows of the read at 560
DeletedPayments(rec) == rec.count

\* DeleteDelete whose this.changes === 0 branch returns without reject: the
\* promise the handler awaits is never settled
DeleteDeleteNoSettle(rec) ==
    /\ rec.pc = "del_delete"
    /\ IF StudentExists(rec.sid)
       THEN /\ students' = {s \in students : s.id # rec.sid}
            /\ payments' = CascadeDeleted(rec.sid)
            /\ req' = Wrote(rec, [rec EXCEPT !.pc = "commit"])
            /\ out' = [NoOut EXCEPT !.op = "deleteStudent", !.code = 200,
                             !.sid = rec.sid, !.count = DeletedPayments(rec),
                             !.removed = Cardinality(payments \ CascadeDeleted(rec.sid))]
            /\ deleted' = deleted \cup {rec.sid}
       ELSE /\ UNCHANGED <<students, payments, deleted>>
            /\ req' = Stepped(rec, [rec EXCEPT !.pc = "pending"])
            /\ out' = NoOut
    /\ UNCHANGED <<seq, inTx, saved, today, arrived>>

\* db.run(DELETE FROM students WHERE id = ?): this.changes === 0 issues
\* ROLLBACK and rejects (404); otherwise COMMIT is issued, the promise
\* resolves and the handler answers 200 with deletedPayments
DeleteDelete(rec) ==
    /\ rec.pc = "del_delete"
    /\ IF StudentExists(rec.sid)
       THEN /\ students' = {s \in students : s.id # rec.sid}
            /\ payments' = CascadeDeleted(rec.sid)
            /\ req' = Wrote(rec, [rec EXCEPT !.pc = "commit"])
            /\ out' = [NoOut EXCEPT !.op = "deleteStudent", !.code = 200,
                             !.sid = rec.sid, !.count = DeletedPayments(rec),
                             !.removed = Cardinality(payments \ CascadeDeleted(rec.sid))]
            /\ deleted' = deleted \cup {rec.sid}
       ELSE /\ UNCHANGED <<students, payments, deleted>>
            /\ req' = Stepped(rec, [rec EXCEPT !.pc = "rollback"])
            /\ out' = [NoOut EXCEPT !.op = "deleteStudent", !.code = 404,
                             !.sid = rec.sid]
    /\ UNCHANGED <<seq, inTx, saved, today, arrived>>

\* ------------------------------------ the statements that end a transaction
\* db.run('COMMIT;') of either handler
RunCommit(rec) ==
    /\ rec.pc = "commit"
    /\ Commit
    /\ req' = IF rec.op = "reconcile" THEN Stepped(rec, [rec EXCEPT !.pc = "rc_list"])
              ELSE Ended(rec)
    /\ out' = NoOut
    /\ UNCHANGED <<today, arrived, deleted>>

\* db.run('ROLLBACK;') of either handler
RunRollback(rec) ==
    /\ rec.pc = "rollback"
    /\ Rollback
    /\ req' = IF tables' # tables THEN DirtyAll(Ended(rec)) ELSE Ended(rec)
    /\ out' = NoOut
    /\ UNCHANGED <<today, arrived, deleted>>

\* midnight passes: date('now') moves to the next day
Tick ==
    /\ today < MaxToday
    /\ today' = today + 1
    /\ out' = NoOut
    /\ UNCHANGED <<db, req, arrived, deleted>>

\* ------------------------------------------------------- specification
\* stores the database file can hold when the server starts
InitStudent == [id |-> 1, name |-> AliceName, amount |-> Amt100]
InitPayment(n) ==
    [id |-> n, student_id |-> 1, amount |-> Amt60, payment_date |-> Day0,
     payment_method |-> "Cash", status |-> "pending"]
InitStores ==
    { [students |-> {}, payments |-> {}, seq |-> [students |-> 0, payments |-> 0]],
      [students |-> {InitStudent}, payments |-> {},
       seq |-> [students |-> 1, payments |-> 0]],
      [students |-> {InitStudent}, payments |-> {InitPayment(1), InitPayment(2)},
       seq |-> [students |-> 1, payments |-> 2]] }

\* request bodies of POST /api/payments: each field present or absent
PaymentBodies ==
    { [sid |-> 1, amount |-> Amt60, pdate |-> Day0],
      [sid |-> 2, amount |-> Amt60, pdate |-> Day0],
      [sid |-> NULL, amount |-> Amt60, pdate |-> Day0],
      [sid |-> 1, amount |-> NULL, pdate |-> Day0],
      [sid |-> 1, amount |-> Amt60, pdate |-> NULL],
      [sid |-> 1, amount |-> Amt60, pdate |-> BadDate] }

Init ==
    /\ \E s \in InitStores :
          /\ students = s.students
          /\ payments = s.payments
          /\ seq = s.seq
    /\ inTx = FALSE
    /\ saved = NoSave
    /\ today = FirstDay
    /\ req = EmptyBag
    /\ arrived = 0
    /\ out = NoOut
    /\ deleted = {}

\* a request arrives and its handler's first statement runs
Arrival ==
    \/ \E name \in {NULL, AliceName} : CreateStudentInsert(name, Amt100)
    \/ \E b \in PaymentBodies : CreatePaymentInsert(b.sid, b.amount, b.pdate)
    \/ \E sid \in StudentIds, amount \in {Amt60, Amt100, Amt150} :
          ReconcileBegin(sid, amount)
    \/ \E sid \in StudentIds : DeleteGet(sid)

\* the next statement of a request in flight runs
Statement ==
    \/ \E rec \in InFlight : CreateStudentGet(rec)
    \/ \E rec \in InFlight : CreatePaymentGet(rec)
    \/ \E rec \in InFlight : ReconcileAll(rec)
    \/ \E rec \in InFlight : ReconcileGet(rec)
    \/ \E rec \in InFlight : ReconcileInsert(rec)
    \/ \E rec \in InFlight : ReconcileUpdate(rec)
    \/ \E rec \in InFlight : ReconcileList(rec)
    \/ \E rec \in InFlight : DeleteAll(rec)
    \/ \E rec \in InFlight : DeleteBegin(rec)
    \/ \E rec \in InFlight : DeleteDelete(rec)
    \/ \E rec \in InFlight : RunCommit(rec)
    \/ \E rec \in InFlight : RunRollback(rec)

Next ==
    \/ arrived < MaxReq /\ Arrival
    \/ Statement
    \/ ListPayments
    \/ Tick

Spec == Init /\ [][Next]_vars

\* Deletions and reconciliations only, one request more: a DELETE that
\* arrives after an earlier DELETE of the same id was answered 200 and a
\* third request ran beside it.
RetryArrival ==
    \/ \E sid \in StudentIds : DeleteGet(sid)
    \/ \E sid \in StudentIds : ReconcileBegin(sid, Amt100)

RetryStatement ==
    \/ \E rec \in InFlight : ReconcileAll(rec)
    \/ \E rec \in InFlight : ReconcileGet(rec)
    \/ \E rec \in InFlight : ReconcileInsert(rec)
    \/ \E rec \in InFlight : ReconcileUpdate(rec)
    \/ \E rec \in InFlight : ReconcileList(rec)
    \/ \E rec \in InFlight : DeleteAll(rec)
    \/ \E rec \in InFlight : DeleteBegin(rec)
    \/ \E rec \in InFlight : DeleteDelete(rec)
    \/ \E rec \in InFlight : RunCommit(rec)
    \/ \E rec \in InFlight : RunRollback(rec)

RetryNext ==
    \/ arrived < MaxReq + 1 /\ RetryArrival
    \/ RetryStatement

SpecRetry == Init /\ [][RetryNext]_vars

\* Deletions and reconciliations only, every statement issued is executed:
\* SQLite runs each statement queued on the connection and node-sqlite3
\* calls its callback, so a request in flight always takes its next step.
LiveNext ==
    \/ arrived < MaxReq /\ RetryArrival
    \/ RetryStatement

SpecLive == Init /\ [][LiveNext]_vars /\ WF_vars(RetryStatement)

\* ================================================================ claims

\* C1. Cascade completeness: once DELETE /api/students/:id has answered 200,
\* the store holds no Student with that id and no Payment with that
\* student_id, whatever other requests are in flight on the connection.
CascadeComplete ==
    \A id \in deleted : ~StudentExists(id) /\ PaymentsOf(id) = {}

\* a reconciliation in flight has written the status of some of the payments
\* it read and not yet of the others, and the rows `rows` show it: a payment
\* it wrote no longer has the status it read, a payment it has yet to write
\* does not have its reconciled status
Torn(rec, rows) ==
    /\ rec.op = "reconcile"
    /\ rec.pc = "rc_update"
    /\ \E i \in 1..(rec.idx - 1), j \in rec.idx..Len(rec.pays) :
          \E a \in rows, b \in rows :
             /\ a.id = rec.pays[i].id
             /\ a.status # rec.pays[i].status
             /\ b.id = rec.pays[j].id
             /\ b.status # UpdateStatus(rec.amount, rec.samount, b.payment_date, today)

\* C2. Isolation: the rows a GET /api/payments answers never show a payment
\* whose Student is gone, and never show only some of a student's payments
\* with the status a reconciliation in progress gives them.
Isolation ==
    out.op = "listPayments" =>
       /\ \A row \in out.rows : row.student_id # NULL => row.student_name # NULL
       /\ \A rec \in InFlight : ~Torn(rec, out.rows)

\* C3. Reconciliation is all-or-nothing: when a reconciliation that failed
\* (Student not found, or the synthetic INSERT failed) has run its ROLLBACK,
\* the students and payments tables are what they were when the request
\* arrived, no other request having written a row in between.
AllOrNothing ==
    [][\A rec \in InFlight :
          (rec.op = "reconcile" /\ rec.clean /\ RunRollback(rec))
             => <<students', payments'>> = rec.pre]_vars

\* C4. Referential integrity: every stored Payment has the student_id of a
\* Student that exists; a POST /api/payments without student_id, or with one
\* that references no Student, stores nothing.
ReferentialIntegrity ==
    \A p \in payments : StudentExists(p.student_id)

\* C5. DELETE /api/students/:id for an id that matches no Student, or that
\* arrives after a DELETE of the same id was answered 200, is answered 404
\* and changes no row of students or payments.
DeleteMissingNotFound ==
    [][\A sid \in StudentIds :
          (DeleteGet(sid) /\ (~StudentExists(sid) \/ sid \in deleted))
             => /\ out'.op = "deleteStudent"
                /\ out'.code = 404
                /\ UNCHANGED <<students, payments>>]_vars

\* C6. deletedPayments of a 200 answer of DELETE /api/students/:id is the
\* number of Payment rows the DELETE removed.
DeletedCountExact ==
    (out.op = "deleteStudent" /\ out.code = 200) => out.count = out.removed

\* C7. Time-based derivation: every row GET /api/payments answers has
\* current_status 'paid' if its stored status is 'paid', otherwise 'overdue'
\* exactly when today is more than 30 days after payment_date, otherwise
\* 'pending'; a payment exactly 30 days old is 'pending' (a payment_date that
\* is no date is never more than 30 days old).
TimeBasedDerivation ==
    out.op = "listPayments" =>
       \A row \in out.rows :
          /\ row.status = "paid" => row.current_status = "paid"
          /\ row.status # "paid" =>
                /\ row.current_status \in {"overdue", "pending"}
                /\ row.current_status = "overdue" <=>
                      (row.payment_date # BadDate /\ today - row.payment_date > GracePeriod)

\* a listing with an unpaid payment that is exactly 30 days old, 'pending'
TimeBasedDerivationWitness ==
    /\ out.op = "listPayments"
    /\ \E row \in out.rows :
          /\ row.status # "paid"
          /\ today - row.payment_date = GracePeriod
          /\ row.current_status = "pending"

\* C8. GET /api/payments is side-effect free: the step that answers it
\* leaves every row of students and payments, stored status included,
\* unchanged.
ListingReadsOnly ==
    [][out'.op = "listPayments" => UNCHANGED <<students, payments, seq>>]_vars

\* a listing whose current_status differs from the status that stays stored
ListingReadsOnlyWitness ==
    /\ out.op = "listPayments"
    /\ \E row \in out.rows : \E p \in payments :
          /\ p.id = row.id
          /\ row.current_status # row.status
          /\ p.status = row.status

\* C9. Reconciliation of an existing Student for whom it read no Payment:
\* its INSERT adds exactly one Payment, of that student, with method
\* 'System', dated today, of the amount supplied, 'paid' if that amount
\* equals the Student's amount and 'pending' otherwise.
SyntheticPaymentCreated ==
    [][\A rec \in InFlight :
          (rec.pc = "rc_insert" /\ StudentExists(rec.sid) /\ ReconcileInsert(rec))
             => /\ payments \subseteq payments'
                /\ Cardinality(payments' \ payments) = 1
                /\ \A p \in payments' \ payments :
                      /\ p.student_id = rec.sid
                      /\ p.payment_method = "System"
                      /\ p.payment_date = today
                      /\ p.amount = rec.amount
                      /\ p.status = IF rec.amount = StudentRow(rec.sid).amount
                                    THEN "paid" ELSE "pending"]_vars

\* a reconciliation that read no payment has inserted its synthetic payment,
\* 'pending' for an amount above the Student's
SyntheticPaymentCreatedWitness ==
    \E rec \in InFlight :
       /\ rec.op = "reconcile"
       /\ rec.pc = "commit"
       /\ rec.pays = <<>>
       /\ rec.amount > rec.samount
       /\ \E p \in PaymentsOf(rec.sid) :
             /\ p.payment_method = "System"
             /\ p.amount = rec.amount
             /\ p.status = "pending"

\* C10. Creation validates required fields: POST /api/students without name,
\* and POST /api/payments without amount or without payment_date, is
\* answered with an error and changes no row of students or payments.
CreateValidates ==
    [][(\/ out'.op = "createStudent" /\ out'.body.name = NULL
        \/ out'.op = "createPayment" /\ out'.body.amount = NULL
        \/ out'.op = "createPayment" /\ out'.body.payment_date = NULL)
          => out'.code = 500 /\ UNCHANGED <<students, payments, seq>>]_vars

\* a POST /api/payments without payment_date was answered 500 while the
\* store holds rows
CreateValidatesWitness ==
    /\ out.op = "createPayment"
    /\ out.body.payment_date = NULL
    /\ out.body.amount # NULL
    /\ out.code = 500
    /\ students # {}
    /\ payments # {}

\* C11. Delete race: a DELETE /api/students/:id whose DELETE statement finds
\* the Student row gone (it vanished after the existence check) is answered
\* with an error and changes no row of students or payments, neither by that
\* statement nor by the ROLLBACK it then runs; in particular it does not
\* bring back the Student another request deleted.
DeleteRaceLoserHarmless ==
    [][\A rec \in InFlight :
          /\ (rec.pc = "del_delete" /\ ~StudentExists(rec.sid) /\ DeleteDelete(rec))
                => /\ out'.op = "deleteStudent"
                   /\ out'.code \in {404, 500}
                   /\ UNCHANGED <<students, payments>>
          /\ (rec.op = "deleteStudent" /\ RunRollback(rec))
                => UNCHANGED <<students, payments>>]_vars

\* the status the reconciliation rule gives a payment dated pdate on day now:
\* 'paid' if the amount supplied is at least the Student's, else 'overdue'
\* if now is more than 30 days after pdate, else 'pending' (a payment_date
\* that is no date is never more than 30 days old)
RuleStatus(amount, samount, pdate, now) ==
    IF amount >= samount THEN "paid"
    ELSE IF pdate # BadDate /\ now - pdate > GracePeriod THEN "overdue"
    ELSE "pending"

\* C12. Reconciliation of an existing Student with at least one Payment:
\* every UPDATE it runs gives one Payment it read the status of the rule and
\* changes nothing else, no Payment is inserted or deleted, and when the
\* last UPDATE has run (no other request having written in between) the
\* Payments of that student are the ones it found, each with the status of
\* the rule, and all other rows are what they were.
ReconcileExisting ==
    [][\A rec \in InFlight :
          (rec.pc = "rc_update" /\ ReconcileUpdate(rec)) =>
             LET id == rec.pays[rec.idx].id IN
             /\ students' = students
             /\ {p.id : p \in payments'} = {p.id : p \in payments}
             /\ \A p \in payments : \A q \in payments' :
                   q.id = p.id =>
                      /\ [q EXCEPT !.status = p.status] = p
                      /\ p.id # id => q = p
                      /\ p.id = id =>
                            q.status = RuleStatus(rec.amount, rec.samount,
                                                  p.payment_date, today)
             /\ (rec.clean /\ rec.idx = Len(rec.pays)) =>
                   /\ {q.id : q \in PaymentsOf(rec.sid)'} =
                         {rec.pays[i].id : i \in 1..Len(rec.pays)}
                   /\ {q \in payments' : q.student_id # rec.sid} =
                         {p \in rec.pre[2] : p.student_id # rec.sid}
                   /\ \A q \in PaymentsOf(rec.sid)' :
                         \E d \in FirstDay..today :
                            q.status = RuleStatus(rec.amount, rec.samount,
                                                  q.payment_date, d)]_vars

\* a reconciliation below the Student's amount has written both payments it
\* read, more than 30 days old, as 'overdue'
ReconcileExistingWitness ==
    \E rec \in InFlight :
       /\ rec.op = "reconcile"
       /\ rec.pc = "commit"
       /\ rec.clean
       /\ Len(rec.pays) = 2
       /\ rec.amount < rec.samount
       /\ \A p \in PaymentsOf(rec.sid) : p.status = "overdue"
       /\ Cardinality(PaymentsOf(rec.sid)) = 2

\* C13. The status a reconciliation writes is determined by the sum of the
\* student's Payment amounts compared with the Student's amount, and by
\* today's date compared with payment_date + 30 days; the amount the request
\* supplies does not change it.
StatusBySum ==
    [][\A rec \in InFlight :
          (rec.pc = "rc_update" /\ ReconcileUpdate(rec)) =>
             \A q \in payments' :
                q.id = rec.pays[rec.idx].id =>
                   q.status = RuleStatus(TotalPaid(rec.pays), rec.samount,
                                         q.payment_date, today)]_vars

\* C14. An acknowledged write is never undone by another request: a ROLLBACK
\* removes no Student and no Payment that POST /api/students or POST
\* /api/payments created and has answered 201 for (a created row whose
\* request is no longer in flight has been answered 201).
AcknowledgedWriteKept ==
    [][\A rec \in InFlight :
          RunRollback(rec) =>
             /\ \A p \in payments \ payments' :
                   p.payment_method = "Cash" =>
                      \E c \in InFlight : c.op = "createPayment" /\ c.sid = p.id
             /\ \A s \in students \ students' :
                   \E c \in InFlight : c.op = "createStudent" /\ c.sid = s.id]_vars

\* C15. Reconciliation inserts its synthetic 'System' Payment only when the
\* student has no Payment at the moment of the INSERT: the INSERT never adds
\* a Payment to a student who holds one, so no student ever holds two
\* Payments created by reconciliation, nor one created after another
\* Payment existed.
SyntheticOnlyWhenNone ==
    [][\A rec \in InFlight :
          (rec.pc = "rc_insert" /\ ReconcileInsert(rec) /\ payments' # payments)
             => /\ PaymentsOf(rec.sid) = {}
                /\ \A sid \in StudentIds :
                      Cardinality({p \in PaymentsOf(sid)' :
                                      p.payment_method = "System"}) <= 1]_vars

\* a DELETE or reconciliation in flight whose response has not been sent:
\* DELETE answers in the callback of its DELETE statement, a failed
\* reconciliation where it throws, a successful one after its last SELECT
Awaiting(rec) ==
    \/ rec.op = "deleteStudent" /\ rec.pc \notin {"commit", "rollback"}
    \/ rec.op = "reconcile" /\ rec.pc # "rollback"

\* the number of requests in flight that await their response
Unanswered ==
    BagCardinality([rec \in {r \in DOMAIN req : Awaiting(r)} |-> req[rec]])

\* the step sends a response of DELETE /api/students/:id or of
\* PUT /api/payments/status/:studentId
Responds ==
    /\ out'.op \in {"deleteStudent", "reconcile"}
    /\ out'.code \in {200, 404, 500}

\* C16. Every DELETE /api/students/:id and every reconciliation eventually
\* receives exactly one response (200, 404 or 500): a step that sends a
\* response answers exactly one request that awaited it, a request never
\* leaves without its response, and eventually no request awaits one.
OneResponse ==
    /\ [][IF arrived' = arrived + 1
          THEN \/ Responds /\ Unanswered' = Unanswered
               \/ out' = NoOut /\ Unanswered' = Unanswered + 1
          ELSE \/ Responds /\ Unanswered' = Unanswered - 1
               \/ out' = NoOut /\ Unanswered' = Unanswered]_vars
    /\ <>[](Unanswered = 0)

\* a DELETE whose BEGIN failed (the winner's transaction is open) and whose
\* DELETE statement affected no row has been answered 404
OneResponseWitness ==
    /\ out.op = "deleteStudent"
    /\ out.code = 404
    /\ inTx
    /\ \E rec \in InFlight : rec.op = "deleteStudent" /\ rec.pc = "rollback"
    /\ \E rec \in InFlight : rec.op = "deleteStudent" /\ rec.pc = "commit"

====
